---- MODULE Spec2Model ----
(***************************************************************************)
(* Model of the ULN2003 / 28BYJ-48 stepper driver (src/src/lib.rs).        *)
(*                                                                         *)
(* The motor owns four output pins, a State, a Direction and an optional   *)
(* delay.  Every public method is one action.  The pins are fallible: the  *)
(* writes that would fail during a call are an input of the call (a set of *)
(* wires for step/stop/power_off, one such set per iteration for step_for).*)
(* Each action records what the call did (its writes and sleeps, in order, *)
(* and its result) in the variable last.                                   *)
(***************************************************************************)
EXTENDS Integers, Sequences, FiniteSets, TLC

\* ---------------------------------------------------------------- bounds
\* largest step count passed to step_for
MaxSteps == 2
\* step() calls counted from construction before the counter is given up
MaxRun == 10

Wires == 1..4

\* the delays (ms) passed to step_for
Delays == {5}

\* the sets of wires whose pin fails during one call of step, stop or
\* power_off: none, the first, an inner or the last wire, or two wires
Faults == {{}, {1}, {3}, {4}, {2, 4}}

\* the sets of wires whose pin fails during the failing iteration of a
\* step_for call
LoopFaults == {{1}, {3}}

States == {"State0", "State1", "State2", "State3", "State4",
           "State5", "State6", "State7", "State8"}

Directions == {"Normal", "Reverse"}

\* ---------------------------------------------------------- pure tables
\* the table with the row of State3 mistyped as that of State4
get_pin_states_typo(s) ==
    CASE s = "State0" -> <<"Low", "Low", "Low", "Low">>
      [] s = "State1" -> <<"Low", "Low", "Low", "High">>
      [] s = "State2" -> <<"Low", "Low", "High", "High">>
      [] s = "State3" -> <<"Low", "High", "High", "Low">>
      [] s = "State4" -> <<"Low", "High", "High", "Low">>
      [] s = "State5" -> <<"Low", "High", "Low", "Low">>
      [] s = "State6" -> <<"High", "High", "Low", "Low">>
      [] s = "State7" -> <<"High", "Low", "Low", "Low">>
      [] s = "State8" -> <<"High", "Low", "Low", "High">>

get_pin_states(s) ==
    CASE s = "State0" -> <<"Low", "Low", "Low", "Low">>
      [] s = "State1" -> <<"Low", "Low", "Low", "High">>
      [] s = "State2" -> <<"Low", "Low", "High", "High">>
      [] s = "State3" -> <<"Low", "Low", "High", "Low">>
      [] s = "State4" -> <<"Low", "High", "High", "Low">>
      [] s = "State5" -> <<"Low", "High", "Low", "Low">>
      [] s = "State6" -> <<"High", "High", "Low", "Low">>
      [] s = "State7" -> <<"High", "Low", "Low", "Low">>
      [] s = "State8" -> <<"High", "Low", "Low", "High">>

\* a 9-cycle: State8 wraps to State0
get_next_state_wrap0(s) ==
    CASE s = "State0" -> "State1"
      [] s = "State1" -> "State2"
      [] s = "State2" -> "State3"
      [] s = "State3" -> "State4"
      [] s = "State4" -> "State5"
      [] s = "State5" -> "State6"
      [] s = "State6" -> "State7"
      [] s = "State7" -> "State8"
      [] s = "State8" -> "State0"

get_next_state(s) ==
    CASE s = "State0" -> "State1"
      [] s = "State1" -> "State2"
      [] s = "State2" -> "State3"
      [] s = "State3" -> "State4"
      [] s = "State4" -> "State5"
      [] s = "State5" -> "State6"
      [] s = "State6" -> "State7"
      [] s = "State7" -> "State8"
      [] s = "State8" -> "State1"

\* a 9-cycle: State1 goes back to State0
get_prev_state_9cycle(s) ==
    CASE s = "State0" -> "State8"
      [] s = "State1" -> "State0"
      [] s = "State2" -> "State1"
      [] s = "State3" -> "State2"
      [] s = "State4" -> "State3"
      [] s = "State5" -> "State4"
      [] s = "State6" -> "State5"
      [] s = "State7" -> "State6"
      [] s = "State8" -> "State7"

\* State0 enters the cycle at State1 in both directions
get_prev_state_fixed0(s) ==
    CASE s = "State0" -> "State1"
      [] s = "State1" -> "State8"
      [] s = "State2" -> "State1"
      [] s = "State3" -> "State2"
      [] s = "State4" -> "State3"
      [] s = "State5" -> "State4"
      [] s = "State6" -> "State5"
      [] s = "State7" -> "State6"
      [] s = "State8" -> "State7"

get_prev_state(s) ==
    CASE s = "State0" -> "State8"
      [] s = "State1" -> "State8"
      [] s = "State2" -> "State1"
      [] s = "State3" -> "State2"
      [] s = "State4" -> "State3"
      [] s = "State5" -> "State4"
      [] s = "State6" -> "State5"
      [] s = "State7" -> "State6"
      [] s = "State8" -> "State7"

\* ------------------------------------------------------- events of a call
\* one pin write: the wire, the level asked for, and whether the pin took it
WriteEv(w, level, ok) ==
    [kind |-> "write", wire |-> w, level |-> level, ok |-> ok, ms |-> 0]

\* one blocking delay_ms(ms)
SleepEv(ms) ==
    [kind |-> "sleep", wire |-> 0, level |-> "Low", ok |-> TRUE, ms |-> ms]

\* set_state(pin, level): Err(StepError) iff the pin's set_state fails;
\* fails is the set of wires whose pin rejects a write during this call
set_state(w, level, fails) == WriteEv(w, level, w \notin fails)

\* the events so far contain a failed write (the Result is Err(StepError))
IsErr(log) == \E i \in 1..Len(log) : ~log[i].ok

\* the ? operator after a set_state call: once an Err was returned the
\* function has returned and nothing more is done
Try(log, w, level, fails) ==
    IF IsErr(log) THEN log ELSE Append(log, set_state(w, level, fails))

ResultOf(log) == IF IsErr(log) THEN "StepError" ELSE "Ok"

\* apply_state as if every write were attempted and the error kept for the end
apply_state_best_effort(s, fails) ==
    LET states == get_pin_states(s)
    IN  [w \in Wires |-> set_state(w, states[w], fails)]

\* apply_state writing in4 first and in1 last
apply_state_reversed(s, fails) ==
    LET states == get_pin_states(s)
    IN  Try(Try(Try(Try(<<>>, 4, states[4], fails),
                              3, states[3], fails),
                              2, states[2], fails),
                              1, states[1], fails)

apply_state(s, fails) ==
    LET states == get_pin_states(s)
    IN  Try(Try(Try(Try(<<>>, 1, states[1], fails),
                              2, states[2], fails),
                              3, states[3], fails),
                              4, states[4], fails)

\* the levels of the pins after the events of log: a write that succeeded
\* sets its pin, a failed write leaves the pin as it was
RECURSIVE PinsAfter(_, _)
PinsAfter(p, log) ==
    IF log = <<>> THEN p
    ELSE LET e == Head(log)
             q == IF e.kind = "write" /\ e.ok
                  THEN [p EXCEPT ![e.wire] = e.level] ELSE p
         IN  PinsAfter(q, Tail(log))

\* -------------------------------------------------------------- methods
\* step(): the new state, the events and the Result
step_ignoring_dir(s, d, fails) ==
    LET ns == get_next_state(s)
        log == apply_state(ns, fails)
    IN  [state |-> ns, log |-> log, res |-> ResultOf(log)]

step_write_first(s, d, fails) ==
    LET ns == IF d = "Normal" THEN get_next_state(s) ELSE get_prev_state(s)
        log == apply_state(ns, fails)
    IN  [state |-> IF IsErr(log) THEN s ELSE ns,
         log |-> log, res |-> ResultOf(log)]

\* step() that drops the Result of apply_state and returns Ok(())
step_swallow_error(s, d, fails) ==
    LET ns == IF d = "Normal" THEN get_next_state(s) ELSE get_prev_state(s)
        log == apply_state(ns, fails)
    IN  [state |-> ns, log |-> log, res |-> "Ok"]

\* step() that calls apply_state before it assigns the new state
step_apply_before_update(s, d, fails) ==
    LET ns == IF d = "Normal" THEN get_next_state(s) ELSE get_prev_state(s)
        log == apply_state(s, fails)
    IN  [state |-> ns, log |-> log, res |-> ResultOf(log)]

step(s, d, fails) ==
    LET ns == IF d = "Normal" THEN get_next_state(s) ELSE get_prev_state(s)
        log == apply_state(ns, fails)
    IN  [state |-> ns, log |-> log, res |-> ResultOf(log)]

\* the loop `for _ in 0..steps { self.step()?; delay_ms(ms) }` from
\* iteration i on; plan[i + 1] is the set of failing wires in iteration i
RECURSIVE step_loop(_, _, _, _, _, _, _)
step_loop(s, d, i, steps, ms, plan, log) ==
    IF i >= steps
    THEN [state |-> s, log |-> log, res |-> "Ok"]
    ELSE LET r == step(s, d, plan[i + 1])
         IN  IF r.res = "StepError"
             THEN [state |-> r.state, log |-> log \o r.log,
                   res |-> "StepError"]
             ELSE step_loop(r.state, d, i + 1, steps, ms, plan,
                            log \o r.log \o <<SleepEv(ms)>>)

\* step_for that carries on with the remaining steps after a failed one
RECURSIVE step_loop_no_abort(_, _, _, _, _, _, _)
step_loop_no_abort(s, d, i, steps, ms, plan, log) ==
    IF i >= steps
    THEN [state |-> s, log |-> log, res |-> ResultOf(log)]
    ELSE LET r == step(s, d, plan[i + 1])
         IN  step_loop_no_abort(r.state, d, i + 1, steps, ms, plan,
                                log \o r.log \o <<SleepEv(ms)>>)

step_for_no_abort(s, d, hasDelay, steps, ms, plan) ==
    IF ~hasDelay
    THEN [state |-> s, log |-> <<>>, res |-> "StepError"]
    ELSE step_loop_no_abort(s, d, 0, steps, ms, plan, <<>>)

\* step_for that only looks for the delay when it is about to sleep
RECURSIVE step_loop_late_check(_, _, _, _, _, _, _, _)
step_loop_late_check(s, d, hasDelay, i, steps, ms, plan, log) ==
    IF i >= steps
    THEN [state |-> s, log |-> log, res |-> "Ok"]
    ELSE LET r == step(s, d, plan[i + 1])
         IN  IF r.res = "StepError" \/ ~hasDelay
             THEN [state |-> r.state, log |-> log \o r.log,
                   res |-> "StepError"]
             ELSE step_loop_late_check(r.state, d, hasDelay, i + 1, steps,
                                       ms, plan,
                                       log \o r.log \o <<SleepEv(ms)>>)

step_for_late_check(s, d, hasDelay, steps, ms, plan) ==
    step_loop_late_check(s, d, hasDelay, 0, steps, ms, plan, <<>>)

\* step_for with a do-while loop: the body runs once before the count is
\* looked at
step_for_do_while(s, d, hasDelay, steps, ms, plan) ==
    IF ~hasDelay
    THEN [state |-> s, log |-> <<>>, res |-> "StepError"]
    ELSE LET r == step(s, d, IF Len(plan) >= 1 THEN plan[1] ELSE {})
         IN  IF r.res = "StepError"
             THEN [state |-> r.state, log |-> r.log, res |-> "StepError"]
             ELSE step_loop(r.state, d, 1, steps, ms, plan,
                            r.log \o <<SleepEv(ms)>>)

\* step_for looping over 1..steps: one step too few
step_for_off_by_one(s, d, hasDelay, steps, ms, plan) ==
    IF ~hasDelay
    THEN [state |-> s, log |-> <<>>, res |-> "StepError"]
    ELSE step_loop(s, d, 1, steps, ms, plan, <<>>)

\* step_for that sleeps between the steps only, not after the last one
RECURSIVE step_loop_sleep_between(_, _, _, _, _, _, _)
step_loop_sleep_between(s, d, i, steps, ms, plan, log) ==
    IF i >= steps
    THEN [state |-> s, log |-> log, res |-> "Ok"]
    ELSE LET r == step(s, d, plan[i + 1])
         IN  IF r.res = "StepError"
             THEN [state |-> r.state, log |-> log \o r.log,
                   res |-> "StepError"]
             ELSE step_loop_sleep_between(
                      r.state, d, i + 1, steps, ms, plan,
                      IF i + 1 < steps
                      THEN log \o r.log \o <<SleepEv(ms)>>
                      ELSE log \o r.log)

step_for_sleep_between(s, d, hasDelay, steps, ms, plan) ==
    IF ~hasDelay
    THEN [state |-> s, log |-> <<>>, res |-> "StepError"]
    ELSE step_loop_sleep_between(s, d, 0, steps, ms, plan, <<>>)

\* step_for taking the count as unsigned: a negative count steps |count|
\* times
step_for_unsigned(s, d, hasDelay, steps, ms, plan) ==
    LET n == IF steps < 0 THEN -steps ELSE steps
        full == [i \in 1..n |-> IF i <= Len(plan) THEN plan[i] ELSE {}]
    IN  IF ~hasDelay
        THEN [state |-> s, log |-> <<>>, res |-> "StepError"]
        ELSE step_loop(s, d, 0, n, ms, full, <<>>)

step_for(s, d, hasDelay, steps, ms, plan) ==
    IF ~hasDelay
    THEN [state |-> s, log |-> <<>>, res |-> "StepError"]
    ELSE step_loop(s, d, 0, steps, ms, plan, <<>>)

\* stop() that resets the state only once the pins took the pattern
stop_reset_on_success(s, fails) ==
    LET log == apply_state("State0", fails)
    IN  [state |-> IF IsErr(log) THEN s ELSE "State0",
         log |-> log, res |-> ResultOf(log)]

stop(s, fails) ==
    LET log == apply_state("State0", fails)
    IN  [state |-> "State0", log |-> log, res |-> ResultOf(log)]

\* power_off() written as stop(): the state is reset too
power_off_resetting(s, fails) ==
    LET log == apply_state("State0", fails)
    IN  [state |-> "State0", log |-> log, res |-> ResultOf(log)]

power_off(s, fails) ==
    LET log == Try(Try(Try(Try(<<>>, 1, "Low", fails),
                                     2, "Low", fails),
                                     3, "Low", fails),
                                     4, "Low", fails)
    IN  [state |-> s, log |-> log, res |-> ResultOf(log)]

\* ---------------------------------------------------------------- state
VARIABLES
    state,      \* self.state
    dir,        \* self.dir
    delay,      \* self.delay.is_some()
    pins,       \* level of in1..in4; "Unset" until the first write
    last,       \* the most recent call: what it was given and what it did
    moved,      \* step() has been called since new() or the last stop()
    run         \* n >= 0: the calls since new() were n step() calls that
                \* all succeeded; -1 otherwise

vars == <<state, dir, delay, pins, last, moved, run>>

\* the call before, as far as the next call is concerned
After(op) == IF op \in {"stop", "power_off"} THEN op ELSE "other"

\* the record of a call
Call(op, n, ms, d, fails, r) ==
    [op |-> op, steps |-> n, ms |-> ms, arg |-> d, fails |-> fails,
     res |-> r.res, log |-> r.log,
     preState |-> state, preDir |-> dir, after |-> After(last.op)]

NoResult == [res |-> "Ok", log |-> <<>>]

\* new(in1, in2, in3, in4, delay): delay is Some or None
Init ==
    /\ state = "State0"
    /\ dir = "Normal"
    /\ delay \in BOOLEAN
    /\ pins = [w \in Wires |-> "Unset"]
    /\ moved = FALSE
    /\ run = 0
    /\ last = [op |-> "new", steps |-> 0, ms |-> 0, arg |-> "Normal",
               fails |-> <<>>, res |-> "Ok", log |-> <<>>,
               preState |-> "State0", preDir |-> "Normal",
               after |-> "other"]

\* the number of write events and of sleep events in a log
Writes(log) == {i \in 1..Len(log) : log[i].kind = "write"}
Sleeps(log) == {i \in 1..Len(log) : log[i].kind = "sleep"}

\* the number of step() calls a step_for made: each made its first write
StepsTaken(log) ==
    Cardinality({i \in Writes(log) : log[i].wire = 1})

Step ==
    \E fails \in Faults :
        LET r == step(state, dir, fails)
        IN  /\ state' = r.state
            /\ pins' = PinsAfter(pins, r.log)
            /\ last' = Call("step", 0, 0, dir, <<fails>>, r)
            /\ moved' = TRUE
            /\ run' = IF run >= 0 /\ run < MaxRun /\ r.res = "Ok"
                      THEN run + 1 ELSE -1
            /\ UNCHANGED <<dir, delay>>

\* the failing wires of each iteration: at most one iteration has any
Plans(n) ==
    IF n <= 0 THEN {<<>>}
    ELSE {[i \in 1..n |-> {}]} \cup
         {[i \in 1..n |-> IF i = k THEN f ELSE {}] :
             k \in 1..n, f \in LoopFaults}

StepFor ==
    \E n \in -1..MaxSteps, ms \in Delays :
        \E plan \in Plans(n) :
            LET r == step_for(state, dir, delay, n, ms, plan)
            IN  /\ state' = r.state
                /\ pins' = PinsAfter(pins, r.log)
                /\ last' = Call("step_for", n, ms, dir, plan, r)
                /\ moved' = (moved \/ StepsTaken(r.log) > 0)
                /\ run' = -1
                /\ UNCHANGED <<dir, delay>>

\* set_direction that takes a step in the new direction at once
SetDirectionStepping ==
    \E d \in Directions :
        LET r == step(state, d, {})
        IN  /\ dir' = d
            /\ state' = r.state
            /\ pins' = PinsAfter(pins, r.log)
            /\ last' = Call("set_direction", 0, 0, d, <<>>, r)
            /\ run' = -1
            /\ UNCHANGED <<delay, moved>>

SetDirection ==
    \E d \in Directions :
        /\ dir' = d
        /\ last' = Call("set_direction", 0, 0, d, <<>>, NoResult)
        /\ run' = -1
        /\ UNCHANGED <<state, delay, pins, moved>>

Stop ==
    \E fails \in Faults :
        LET r == stop(state, fails)
        IN  /\ state' = r.state
            /\ pins' = PinsAfter(pins, r.log)
            /\ last' = Call("stop", 0, 0, dir, <<fails>>, r)
            /\ moved' = FALSE
            /\ run' = -1
            /\ UNCHANGED <<dir, delay>>

PowerOff ==
    \E fails \in Faults :
        LET r == power_off(state, fails)
        IN  /\ state' = r.state
            /\ pins' = PinsAfter(pins, r.log)
            /\ last' = Call("power_off", 0, 0, dir, <<fails>>, r)
            /\ run' = -1
            /\ UNCHANGED <<dir, delay, moved>>

Next == Step \/ StepFor \/ SetDirection \/ Stop \/ PowerOff

Spec == Init /\ [][Next]_vars

TypeOK ==
    /\ state \in States
    /\ dir \in Directions
    /\ delay \in BOOLEAN
    /\ pins \in [Wires -> {"Low", "High", "Unset"}]
    /\ moved \in BOOLEAN
    /\ run \in -1..MaxRun
\* ------------------------------------------------------------ properties
\* the successor of a Position under a Direction
Succ(s, d) == IF d = "Normal" THEN get_next_state(s) ELSE get_prev_state(s)

RECURSIVE SuccN(_, _, _)
SuccN(s, d, k) == IF k <= 0 THEN s ELSE SuccN(Succ(s, d), d, k - 1)

\* the events of four successful writes of the levels lv to wires 1..4
FourWrites(lv) == [w \in Wires |-> WriteEv(w, lv[w], TRUE)]

AllLow == <<"Low", "Low", "Low", "Low">>

\* the rows State1..State8 of the pattern table, as the claim lists them
C1_Rows ==
    << <<"Low", "Low", "Low", "High">>,  <<"Low", "Low", "High", "High">>,
       <<"Low", "Low", "High", "Low">>,  <<"Low", "High", "High", "Low">>,
       <<"Low", "High", "Low", "Low">>,  <<"High", "High", "Low", "Low">>,
       <<"High", "Low", "Low", "Low">>,  <<"High", "Low", "Low", "High">> >>

C1_Names == <<"State1", "State2", "State3", "State4",
              "State5", "State6", "State7", "State8">>

\* C1: after the k-th of k consecutive successful step() calls on a freshly
\* constructed motor the Position is State((k-1) mod 8 + 1) (so State1 ..
\* State8 for k = 1..8 and State1 again for k = 9), the call wrote exactly
\* that row of the pattern table to wires 1..4 and the pins hold it.
C1_FreshStepsFollowTable ==
    \A k \in 1..MaxRun :
        run = k =>
            LET row == ((k - 1) % 8) + 1
            IN  /\ state = C1_Names[row]
                /\ last.log = FourWrites(C1_Rows[row])
                /\ pins = C1_Rows[row]

C1_Witness == run = 9 /\ state = "State1" /\ last.op = "step"

\* C2 as claimed: the step() that follows stop() moves to State1 whatever
\* the Direction.
C2_StepAfterStopIsState1 ==
    (last.op = "step" /\ last.after = "stop") => state = "State1"

\* C2 amended: the step() that follows stop() moves to State1 when
\* Direction is Normal and to State8 when it is Reverse.
C2_StepAfterStopByDirection ==
    (last.op = "step" /\ last.after = "stop") =>
        /\ last.preState = "State0"
        /\ state = IF last.preDir = "Normal" THEN "State1" ELSE "State8"

C2_Witness ==
    /\ last.op = "step" /\ last.after = "stop"
    /\ last.preDir = "Reverse" /\ state = "State8"

\* the wires a call attempted to write, and those whose write succeeded
Attempted(log) == {log[i].wire : i \in Writes(log)}
Written(log) == {log[i].wire : i \in {j \in Writes(log) : log[j].ok}}

\* C3 as claimed: when the write to wire 3 (alone) fails in step(), wires
\* 1, 2 and 4 still receive their level and the call returns StepError.
C3_RemainingWritesAttempted ==
    (last.op = "step" /\ last.fails = <<{3}>>) =>
        /\ {1, 2, 4} \subseteq Written(last.log)
        /\ last.res = "StepError"

\* C3 amended: step() returns StepError exactly when a pin fails; the
\* wires before the first failing wire k have received their new level,
\* wire k was attempted once and no wire after k is attempted at all.
C3_WritesStopAtFirstFailure ==
    last.op = "step" =>
        LET f == last.fails[1]
        IN  IF f = {}
            THEN last.res = "Ok" /\ last.log = FourWrites(get_pin_states(state))
            ELSE LET k == CHOOSE w \in f : \A v \in f : w <= v
                 IN  /\ last.res = "StepError"
                     /\ Len(last.log) = k
                     /\ \A w \in 1..k :
                            last.log[w] =
                                WriteEv(w, get_pin_states(state)[w], w < k)

C3_Witness ==
    /\ last.op = "step" /\ last.fails = <<{3}>>
    /\ Written(last.log) = {1, 2} /\ Attempted(last.log) = {1, 2, 3}
    /\ last.res = "StepError"

\* C4: a step() moves Position to its successor under the Direction in
\* force, starting from the Position the previous call left (also when
\* that call failed), whatever the outcome of the writes; Direction is
\* unchanged, and every level the call writes is already that of the new
\* Position.
C4_PositionAdvancesBeforeWrites ==
    [][last'.op = "step" =>
          /\ state' = Succ(state, dir)
          /\ dir' = dir
          /\ \A i \in Writes(last'.log) :
                 last'.log[i].level
                     = get_pin_states(Succ(state, dir))[last'.log[i].wire]
      ]_vars

C4_Witness ==
    /\ last.op = "step" /\ last.res = "StepError"
    /\ state = Succ(last.preState, dir) /\ state # last.preState
    /\ Attempted(last.log) = {1}

\* prev as the claim states it
C5_Prev(s) ==
    CASE s = "State0" -> "State8"
      [] s = "State1" -> "State8"
      [] s = "State2" -> "State1"
      [] s = "State3" -> "State2"
      [] s = "State4" -> "State3"
      [] s = "State5" -> "State4"
      [] s = "State6" -> "State5"
      [] s = "State7" -> "State6"
      [] s = "State8" -> "State7"

\* C5: with Direction = Reverse, step() from Position p moves to prev(p);
\* the levels it writes are those of prev(p), and when no write fails all
\* four wires receive them.
C5_ReverseStepMovesToPrev ==
    (last.op = "step" /\ last.preDir = "Reverse") =>
        /\ state = C5_Prev(last.preState)
        /\ \A i \in Writes(last.log) :
               last.log[i].level
                   = get_pin_states(C5_Prev(last.preState))[last.log[i].wire]
        /\ last.res = "Ok" =>
               /\ last.log = FourWrites(get_pin_states(C5_Prev(last.preState)))
               /\ pins = get_pin_states(C5_Prev(last.preState))

C5_Witness ==
    /\ last.op = "step" /\ last.preDir = "Reverse"
    /\ last.preState = "State1" /\ state = "State8"
    /\ last.res = "Ok" /\ pins = <<"High", "Low", "Low", "High">>

\* C6: stop() sets Position to State0 whether or not a write fails, leaves
\* Direction unchanged, writes only Low, and when no write fails writes
\* Low to all four lines.
C6_StopResets ==
    [][last'.op = "stop" =>
          /\ state' = "State0"
          /\ dir' = dir
          /\ \A i \in Writes(last'.log) : last'.log[i].level = "Low"
          /\ last'.res = "Ok" =>
                 last'.log = FourWrites(AllLow) /\ pins' = AllLow
      ]_vars

C6_Witness ==
    /\ last.op = "stop" /\ last.res = "StepError"
    /\ last.preState = "State5" /\ state = "State0"
    /\ last.preDir = "Reverse" /\ dir = "Reverse"

\* C7: power_off() leaves Position and Direction unchanged whether or not
\* a write fails, writes only Low and, when no write fails, Low to all four
\* lines; the step() that follows it moves to the successor (under the
\* current Direction) of the Position held before power_off() and, when no
\* write fails, writes that Position's pattern.
C7_PowerOffKeepsPosition ==
    [][/\ last'.op = "power_off" =>
              /\ state' = state
              /\ dir' = dir
              /\ \A i \in Writes(last'.log) : last'.log[i].level = "Low"
              /\ last'.res = "Ok" =>
                     last'.log = FourWrites(AllLow) /\ pins' = AllLow
       /\ (last.op = "power_off" /\ last'.op = "step") =>
              /\ state' = Succ(last.preState, dir)
              /\ last'.res = "Ok" =>
                     /\ last'.log =
                            FourWrites(get_pin_states(Succ(last.preState, dir)))
                     /\ pins' = get_pin_states(Succ(last.preState, dir))
      ]_vars

C7_Witness ==
    /\ last.op = "step" /\ last.after = "power_off"
    /\ last.preState = "State3" /\ last.preDir = "Reverse"
    /\ state = "State2" /\ last.res = "Ok"
    /\ pins = <<"Low", "Low", "High", "High">>

\* C8: step_for on a motor without a delay returns StepError for every N
\* and ms, makes no line write and no sleep, and leaves Position, Direction
\* and the pins unchanged.
C8_StepForWithoutDelay ==
    [][(last'.op = "step_for" /\ ~delay) =>
          /\ last'.res = "StepError"
          /\ last'.log = <<>>
          /\ state' = state /\ dir' = dir /\ pins' = pins
      ]_vars

C8_Witness ==
    /\ last.op = "step_for" /\ ~delay /\ last.steps = MaxSteps
    /\ last.res = "StepError" /\ last.log = <<>>
    /\ state = "State4"

\* C9 as claimed: step_for(0, ms) makes no line write, leaves Position
\* unchanged and returns success in every Motor state.
C9_ZeroStepsAlwaysOk ==
    (last.op = "step_for" /\ last.steps = 0) =>
        /\ last.log = <<>>
        /\ state = last.preState
        /\ last.res = "Ok"

\* C9 amended: step_for(0, ms) makes no line write and leaves Position
\* unchanged in every Motor state; it returns success when the Motor has a
\* delay and StepError when it has none.
C9_ZeroStepsNoWrites ==
    (last.op = "step_for" /\ last.steps = 0) =>
        /\ last.log = <<>>
        /\ state = last.preState
        /\ last.res = IF delay THEN "Ok" ELSE "StepError"

C9_Witness ==
    /\ last.op = "step_for" /\ last.steps = 0 /\ delay
    /\ last.res = "Ok" /\ last.log = <<>> /\ state = "State6"

\* C10: when step_for on a motor with a delay returns StepError the failed
\* write is the last thing it did (no sleep and no write follows it), it
\* failed in the iteration k <= N the pins failed in, k - 1 sleeps were
\* made (one after each earlier step) and Position is k steps on from
\* where it was.
C10_StepForAbortsAtFirstFailure ==
    (last.op = "step_for" /\ delay /\ last.res = "StepError") =>
        LET log == last.log
            k == StepsTaken(log)
        IN  /\ log # <<>>
            /\ log[Len(log)].kind = "write" /\ ~log[Len(log)].ok
            /\ \A i \in 1..(Len(log) - 1) : log[i].ok
            /\ k >= 1 /\ k <= last.steps
            /\ last.fails[k] # {}
            /\ \A j \in 1..(k - 1) : last.fails[j] = {}
            /\ Cardinality(Sleeps(log)) = k - 1
            /\ state = SuccN(last.preState, last.preDir, k)

C10_Witness ==
    /\ last.op = "step_for" /\ delay /\ last.res = "StepError"
    /\ last.steps = 2 /\ StepsTaken(last.log) = 1
    /\ last.preState = "State2" /\ state = "State3"

\* no pin fails in any iteration of a step_for plan
NoFault(plan) == \A i \in 1..Len(plan) : plan[i] = {}

\* Position and pin levels after k step() calls without a failing pin
RECURSIVE NSteps(_, _, _, _)
NSteps(s, p, d, k) ==
    IF k <= 0 THEN [state |-> s, pins |-> p]
    ELSE LET r == step(s, d, {})
         IN  NSteps(r.state, PinsAfter(p, r.log), d, k - 1)

\* the places in a log where a step() begins: its write to wire 1
StepStarts(log) == {i \in Writes(log) : log[i].wire = 1}

\* C11: step_for(N, ms) with N >= 1, a delay and no failing pin returns Ok
\* after exactly N step() transitions, ends in the Position, Direction and
\* pin levels that N consecutive step() calls from the same state give, and
\* every step but the first starts right after a sleep of ms.
C11_StepForEqualsNSteps ==
    (last.op = "step_for" /\ delay /\ last.steps >= 1 /\ NoFault(last.fails))
    =>  LET n == last.steps
            e == NSteps(last.preState, [w \in Wires |-> "Unset"],
                        last.preDir, n)
        IN  /\ last.res = "Ok"
            /\ Cardinality(StepStarts(last.log)) = n
            /\ state = e.state
            /\ dir = last.preDir
            /\ pins = e.pins
            /\ \A i \in StepStarts(last.log) :
                   i > 1 => last.log[i - 1] = SleepEv(last.ms)
            /\ \A i \in Sleeps(last.log) : last.log[i].ms = last.ms

C11_Witness ==
    /\ last.op = "step_for" /\ delay /\ last.steps = 2
    /\ NoFault(last.fails) /\ last.res = "Ok"
    /\ last.preState = "State8" /\ last.preDir = "Normal"
    /\ state = "State2" /\ pins = <<"Low", "Low", "High", "High">>

\* C12: set_direction(d) writes no line, returns nothing that can fail and
\* changes only Direction (to d); a step() moves by the Direction in force
\* when it is called, so the step() after set_direction(d) moves by d.
C12_SetDirectionOnlySetsDir ==
    [][/\ last'.op = "set_direction" =>
              /\ dir' = last'.arg
              /\ last'.log = <<>> /\ last'.res = "Ok"
              /\ state' = state /\ pins' = pins /\ delay' = delay
       /\ last'.op = "step" =>
              state' = Succ(state, dir)
       /\ (last.op = "set_direction" /\ last'.op = "step") =>
              state' = Succ(last.preState, last.arg)
      ]_vars

C12_Witness ==
    /\ last.op = "set_direction" /\ last.arg = "Reverse"
    /\ last.preDir = "Normal" /\ dir = "Reverse"
    /\ state = "State3" /\ pins = <<"Low", "Low", "High", "Low">>

\* C13: a Reverse step() from Position p lands on prev(p); next of that is
\* p again exactly when p is one of State1..State8.  From State0 and from
\* State1 it lands on State8, so next(prev(State0)) = State1, whose pattern
\* is not that of State0.
C13_NextInvertsPrevExceptAtState0 ==
    (last.op = "step" /\ last.preDir = "Reverse") =>
        /\ last.preState # "State0" => get_next_state(state) = last.preState
        /\ last.preState \in {"State0", "State1"} => state = "State8"
        /\ last.preState = "State0" =>
               /\ get_next_state(state) # last.preState
               /\ get_pin_states(get_next_state(state))
                      # get_pin_states(last.preState)

C13_Witness ==
    /\ last.op = "step" /\ last.preDir = "Reverse"
    /\ last.preState = "State0" /\ state = "State8"
    /\ get_next_state(state) = "State1"

\* C14: step(), stop() and power_off() return StepError exactly when the pin
\* of a wire they attempt to write fails, and they write no wire twice.
C14_ErrorIffAttemptedWriteFails ==
    last.op \in {"step", "stop", "power_off"} =>
        /\ last.res = "StepError"
               <=> Attempted(last.log) \cap last.fails[1] # {}
        /\ last.res = "StepError"
               <=> \E i \in Writes(last.log) : ~last.log[i].ok
        /\ \A i, j \in Writes(last.log) :
               last.log[i].wire = last.log[j].wire => i = j

C14_Witness ==
    /\ last.op = "power_off" /\ last.fails = <<{2, 4}>>
    /\ last.res = "StepError" /\ Attempted(last.log) = {1, 2}

\* C15: step(), stop() and power_off() write the lines in wire order: the
\* i-th thing a call does is its write to wire i.
C15_WritesInWireOrder ==
    last.op \in {"step", "stop", "power_off"} =>
        \A i \in 1..Len(last.log) :
            last.log[i].kind = "write" /\ last.log[i].wire = i

C15_Witness ==
    /\ last.op = "stop" /\ last.res = "Ok" /\ Len(last.log) = 4
    /\ \A i \in 1..4 : last.log[i].wire = i

\* the pins hold the pattern of the current Position
InSync == pins = get_pin_states(state)

\* C16: a step() or stop() that returns Ok leaves the pins holding
\* pattern(Position); set_direction() keeps that; and a call after which
\* it no longer holds is a power_off() or a call with a failed write.
C16_PinsFollowPosition ==
    [][/\ (last'.op \in {"step", "stop"} /\ last'.res = "Ok") => InSync'
       /\ (last'.op = "set_direction" /\ InSync) => InSync'
       /\ (InSync /\ ~InSync') =>
              \/ last'.op = "power_off"
              \/ /\ last'.res = "StepError"
                 /\ \E i \in Writes(last'.log) : ~last'.log[i].ok
      ]_vars

C16_Witness ==
    /\ last.op = "set_direction" /\ last.after = "other"
    /\ state = "State6" /\ pins = <<"High", "High", "Low", "Low">>

\* C17: Position is State0 exactly when no step() has been called since
\* new() or since the last stop(); no step() and no step_for() that took a
\* step ends in State0.
C17_State0OnlyWhenIdle ==
    /\ state = "State0" <=> ~moved
    /\ last.op = "step" => state # "State0"
    /\ (last.op = "step_for" /\ StepStarts(last.log) # {}) => state # "State0"

C17_Witness ==
    /\ last.op = "step" /\ last.res = "StepError"
    /\ last.preState = "State1" /\ last.preDir = "Reverse"
    /\ state = "State8" /\ moved

\* the number of wires two patterns differ on, and of High wires in one
Diff(a, b) == Cardinality({w \in Wires : a[w] # b[w]})
Highs(a) == Cardinality({w \in Wires : a[w] = "High"})

\* C18 as claimed: every step() changes the target level (the pattern of
\* the Position) of exactly one wire.
C18_EveryStepChangesOneWire ==
    last.op = "step" =>
        Diff(get_pin_states(last.preState), get_pin_states(state)) = 1

\* C18 amended: for the Position p the motor is in, pattern(p) and
\* pattern(next(p)) differ on exactly one wire; when p is one of
\* State1..State8 so do pattern(p) and pattern(prev(p)), and pattern(p) has
\* one or two wires High.  So a step() changes the pattern on exactly one
\* wire, except a Reverse step() from State0, which goes to State8 and
\* changes two (wires 1 and 4).
C18_OneWirePerStep ==
    /\ Diff(get_pin_states(state), get_pin_states(get_next_state(state))) = 1
    /\ state # "State0" =>
           /\ Diff(get_pin_states(state),
                   get_pin_states(get_prev_state(state))) = 1
           /\ Highs(get_pin_states(state)) \in {1, 2}
    /\ last.op = "step" =>
           IF last.preDir = "Reverse" /\ last.preState = "State0"
           THEN {w \in Wires : get_pin_states(last.preState)[w]
                                   # get_pin_states(state)[w]} = {1, 4}
           ELSE Diff(get_pin_states(last.preState), get_pin_states(state)) = 1

C18_Witness ==
    /\ last.op = "step" /\ last.preDir = "Reverse"
    /\ last.preState = "State1" /\ state = "State8"
    /\ Diff(get_pin_states("State1"), get_pin_states("State8")) = 1

\* C19: step_for(N, ms) with N >= 1, a delay and no failing pin sleeps ms
\* after each of its N steps, the last one included: N sleeps, one after
\* the four writes of every step, and the sleep after the N-th step is the
\* last thing the call does.
C19_SleepAfterEveryStep ==
    (last.op = "step_for" /\ delay /\ last.steps >= 1 /\ NoFault(last.fails))
    =>  /\ Cardinality(Sleeps(last.log)) = last.steps
        /\ Len(last.log) = 5 * last.steps
        /\ \A k \in 1..last.steps :
               /\ last.log[5 * k] = SleepEv(last.ms)
               /\ \A w \in Wires : last.log[5 * (k - 1) + w].kind = "write"
        /\ last.log[Len(last.log)].kind = "sleep"

C19_Witness ==
    /\ last.op = "step_for" /\ delay /\ last.steps = 2
    /\ NoFault(last.fails) /\ Cardinality(Sleeps(last.log)) = 2
    /\ last.log[Len(last.log)] = SleepEv(5)

\* C20: step_for(N, ms) with N < 0 on a motor with a delay writes no line,
\* does not sleep, leaves Position and Direction unchanged and returns Ok.
C20_NegativeCountDoesNothing ==
    [][(last'.op = "step_for" /\ last'.steps < 0 /\ delay) =>
          /\ last'.log = <<>>
          /\ last'.res = "Ok"
          /\ state' = state /\ dir' = dir /\ pins' = pins
      ]_vars

C20_Witness ==
    /\ last.op = "step_for" /\ last.steps = -1 /\ delay
    /\ last.res = "Ok" /\ last.log = <<>>
    /\ state = "State5" /\ last.preState = "State5"
====
